---- MODULE Spec2Model ----
(***************************************************************************)
(* A model of the chess rules engine of chess/ChessEngine.py: the          *)
(* GameState aggregate (board, side to move, king-square caches, castling  *)
(* rights, en-passant target, move log and the two history stacks), its    *)
(* move generator getValidMoves and the makeMove / undoMove pair.          *)
(*                                                                         *)
(* Squares are (row, col) in 0..7 x 0..7 as in the source, row 0 being     *)
(* black's back rank.  A piece is the source's two-character code ("wK",   *)
(* "bp", ..., "--" for an empty square).                                   *)
(***************************************************************************)
EXTENDS Integers, Sequences, FiniteSets, TLC

VARIABLES
    board,                 \* self.board
    moveLog,               \* self.moveLog
    whiteToMove,           \* self.whiteToMove
    whiteKingLocation,     \* self.whiteKingLocation
    blackKingLocation,     \* self.blackKingLocation
    inCheck,               \* self.inCheck
    pins,                  \* self.pins
    checks,                \* self.checks
    checkmate,             \* self.checkmate
    stalemate,             \* self.stalemate
    enPassantPossible,     \* self.enPassantPossible: <<>> or <<row, col>>
    enPassantPossibleLog,  \* self.enPassantPossibleLog
    currentCastlingRight,  \* self.currentCastlingRight (a CastleRights value)
    castleRightsLog,       \* self.castleRightsLog
    castleAlias,           \* index of the castleRightsLog entry that is the same
                           \* object as currentCastlingRight, 0 when there is none
    validMoves,            \* the caller's list, result of the last getValidMoves
    clickMove,             \* main()'s move: the Move built from the two squares
                           \* clicked last, <<>> before the first pair of clicks
    stale,                 \* TRUE when the position changed since validMoves was computed
    raised,                \* "" or the name of the exception that ended the program
    undone,                \* number of undoMove calls on a non-empty log so far
    perftStack,            \* perft traversal: the moves still to visit, one list per depth
    perftCount,            \* perft traversal: paths counted so far, per depth
    playerOne,             \* main(): TRUE when a human plays White
    playerTwo,             \* main(): TRUE when a human plays Black
    humanTurn,             \* main(): the value line 54 computed for this pass of the loop
    moveMade,              \* main(): a getValidMoves call is due at the end of the pass
    moveUndone,            \* main(): 'u' or 'r' was handled and no list computed at line 131 since
    gameOver,              \* main()
    AIThinking,            \* main(): a move search was started and its result not yet taken
    searchMoves,           \* the validMoves handed to the running search (line 115)
    resets,                \* number of 'r' keys handled so far
    inputs                 \* number of input events the loop of line 55 handled so far

vars == <<board, moveLog, whiteToMove, whiteKingLocation, blackKingLocation,
          inCheck, pins, checks, checkmate, stalemate, enPassantPossible,
          enPassantPossibleLog, currentCastlingRight, castleRightsLog,
          castleAlias, validMoves, clickMove, stale, raised, undone, perftStack,
          perftCount, playerOne, playerTwo, humanTurn, moveMade, moveUndone,
          gameOver, AIThinking, searchMoves, resets, inputs>>

\* the locals of main() that drive the game loop
mainVars == <<playerOne, playerTwo, humanTurn, moveMade, moveUndone, gameOver,
              AIThinking, searchMoves, resets, inputs>>

(***************************************************************************)
(* Bounds of the exploration.                                              *)
(***************************************************************************)
\* undoMove calls (on a non-empty log) in one run
MaxUndo == 1

\* 'r' keys handled in one run of the game loop
MaxReset == 1
\* input events a run of the game loop handles where they are counted
MaxInputs == 2

(***************************************************************************)
(* Piece codes.  The source indexes the two-character string: piece[0] is  *)
(* the colour and piece[1] the kind.                                       *)
(***************************************************************************)
Color(p) ==
    CASE p \in {"wK", "wQ", "wR", "wB", "wN", "wp"} -> "w"
      [] p \in {"bK", "bQ", "bR", "bB", "bN", "bp"} -> "b"
      [] OTHER -> "-"

Kind(p) ==
    CASE p \in {"wK", "bK"} -> "K"
      [] p \in {"wQ", "bQ"} -> "Q"
      [] p \in {"wR", "bR"} -> "R"
      [] p \in {"wB", "bB"} -> "B"
      [] p \in {"wN", "bN"} -> "N"
      [] p \in {"wp", "bp"} -> "p"
      [] OTHER -> "-"

\* variant: the piece placed is a rook
RookOf(p) == IF Color(p) = "w" THEN "wR" ELSE "bR"

\* move.pieceMoved[0] + 'Q'
QueenOf(p) == IF Color(p) = "w" THEN "wQ" ELSE "bQ"

Abs(x) == IF x < 0 THEN -x ELSE x

\* The only element of a one-element set.  The({F(x) : x \in {e}}) is F(e)
\* with e evaluated once, whatever the number of uses of x in F.
The(S) == CHOOSE x \in S : TRUE

OnBoard(r, c) == 0 <= r /\ r <= 7 /\ 0 <= c /\ c <= 7

BackRankBlack == <<"bR", "bN", "bB", "bQ", "bK", "bB", "bN", "bR">>
BackRankWhite == <<"wR", "wN", "wB", "wQ", "wK", "wB", "wN", "wR">>

\* GameState.__init__: the board
InitBoard ==
    [r \in 0..7 |->
        [c \in 0..7 |->
            CASE r = 0 -> BackRankBlack[c + 1]
              [] r = 1 -> "bp"
              [] r = 6 -> "wp"
              [] r = 7 -> BackRankWhite[c + 1]
              [] OTHER -> "--"]]

\* CastleRights.__init__
CastleRights(wks, bks, wqs, bqs) ==
    [wks |-> wks, bks |-> bks, wqs |-> wqs, bqs |-> bqs]

\* Move.__init__
Move(startSq, endSq, b, isEnpassantMove, isCastleMove) ==
    LET pieceMoved == b[startSq[1]][startSq[2]]
        pieceCaptured ==
            IF isEnpassantMove
            THEN (IF pieceMoved = "bp" THEN "wp" ELSE "bp")
            ELSE b[endSq[1]][endSq[2]]
    IN  [startRow |-> startSq[1], startCol |-> startSq[2],
         endRow |-> endSq[1], endCol |-> endSq[2],
         pieceMoved |-> pieceMoved,
         pieceCaptured |-> pieceCaptured,
         isPawnPromotion |-> (pieceMoved = "wp" /\ endSq[1] = 0)
                              \/ (pieceMoved = "bp" /\ endSq[1] = 7),
         isEnpassantMove |-> isEnpassantMove,
         isCapture |-> pieceCaptured # "--",
         isCastleMove |-> isCastleMove,
         moveID |-> startSq[1] * 1000 + startSq[2] * 100 + endSq[1] * 10 + endSq[2]]

\* an equality that compares every field of the two values
MoveEqAllFields(m1, m2) == m1 = m2

\* Move.__eq__
MoveEq(m1, m2) == m1.moveID = m2.moveID

\* board[r][c] = p
SetSq(b, r, c, p) == [b EXCEPT ![r][c] = p]

(***************************************************************************)
(* The GameState as one record, so that the methods are operators from     *)
(* states to states.                                                       *)
(***************************************************************************)
GS ==
    [board |-> board, moveLog |-> moveLog, whiteToMove |-> whiteToMove,
     whiteKingLocation |-> whiteKingLocation,
     blackKingLocation |-> blackKingLocation,
     inCheck |-> inCheck, pins |-> pins, checks |-> checks,
     checkmate |-> checkmate, stalemate |-> stalemate,
     enPassantPossible |-> enPassantPossible,
     enPassantPossibleLog |-> enPassantPossibleLog,
     currentCastlingRight |-> currentCastlingRight,
     castleRightsLog |-> castleRightsLog,
     castleAlias |-> castleAlias]

\* GameState.__init__
InitGS ==
    [board |-> InitBoard, moveLog |-> <<>>, whiteToMove |-> TRUE,
     whiteKingLocation |-> <<7, 4>>,
     blackKingLocation |-> <<0, 4>>,
     inCheck |-> FALSE, pins |-> <<>>, checks |-> <<>>,
     checkmate |-> FALSE, stalemate |-> FALSE,
     enPassantPossible |-> <<>>,
     enPassantPossibleLog |-> << <<>> >>,
     currentCastlingRight |-> CastleRights(TRUE, TRUE, TRUE, TRUE),
     castleRightsLog |-> << CastleRights(TRUE, TRUE, TRUE, TRUE) >>,
     castleAlias |-> 0]

\* the changes of the lines 144-161 alone: a captured rook revokes nothing
RevokedRightsMovedOnly(cr, move) ==
    CASE move.pieceMoved = "wK" -> [cr EXCEPT !.wks = FALSE, !.wqs = FALSE]
      [] move.pieceMoved = "bK" -> [cr EXCEPT !.bks = FALSE, !.bqs = FALSE]
      [] move.pieceMoved = "wR" /\ move.startRow = 7 /\ move.startCol = 0 ->
            [cr EXCEPT !.wqs = FALSE]
      [] move.pieceMoved = "wR" /\ move.startRow = 7 /\ move.startCol = 7 ->
            [cr EXCEPT !.wks = FALSE]
      [] move.pieceMoved = "bR" /\ move.startRow = 0 /\ move.startCol = 0 ->
            [cr EXCEPT !.bqs = FALSE]
      [] move.pieceMoved = "bR" /\ move.startRow = 0 /\ move.startCol = 7 ->
            [cr EXCEPT !.bks = FALSE]
      [] OTHER -> cr

\* the rights after the in-place changes of updateCastleRights (lines 144-175)
RevokedRights(cr, move) ==
    LET afterMoved ==
            CASE move.pieceMoved = "wK" -> [cr EXCEPT !.wks = FALSE, !.wqs = FALSE]
              [] move.pieceMoved = "bK" -> [cr EXCEPT !.bks = FALSE, !.bqs = FALSE]
              [] move.pieceMoved = "wR" /\ move.startRow = 7 /\ move.startCol = 0 ->
                    [cr EXCEPT !.wqs = FALSE]
              [] move.pieceMoved = "wR" /\ move.startRow = 7 /\ move.startCol = 7 ->
                    [cr EXCEPT !.wks = FALSE]
              [] move.pieceMoved = "bR" /\ move.startRow = 0 /\ move.startCol = 0 ->
                    [cr EXCEPT !.bqs = FALSE]
              [] move.pieceMoved = "bR" /\ move.startRow = 0 /\ move.startCol = 7 ->
                    [cr EXCEPT !.bks = FALSE]
              [] OTHER -> cr
    IN  CASE move.pieceCaptured = "wR" /\ move.endRow = 7 /\ move.endCol = 0 ->
                [afterMoved EXCEPT !.wqs = FALSE]
          [] move.pieceCaptured = "wR" /\ move.endRow = 7 /\ move.endCol = 7 ->
                [afterMoved EXCEPT !.wks = FALSE]
          [] move.pieceCaptured = "bR" /\ move.endRow = 0 /\ move.endCol = 0 ->
                [afterMoved EXCEPT !.bqs = FALSE]
          [] move.pieceCaptured = "bR" /\ move.endRow = 0 /\ move.endCol = 7 ->
                [afterMoved EXCEPT !.bks = FALSE]
          [] OTHER -> afterMoved

\* an updateCastleRights that gives a right back to the rook that moves onto
\* its corner
updateCastleRightsRegaining(s, move) ==
    LET revoked == RevokedRights(s.currentCastlingRight, move)
        new == CASE move.pieceMoved = "wR" /\ move.endRow = 7 /\ move.endCol = 0 ->
                        [revoked EXCEPT !.wqs = TRUE]
                 [] move.pieceMoved = "wR" /\ move.endRow = 7 /\ move.endCol = 7 ->
                        [revoked EXCEPT !.wks = TRUE]
                 [] move.pieceMoved = "bR" /\ move.endRow = 0 /\ move.endCol = 0 ->
                        [revoked EXCEPT !.bqs = TRUE]
                 [] move.pieceMoved = "bR" /\ move.endRow = 0 /\ move.endCol = 7 ->
                        [revoked EXCEPT !.bks = TRUE]
                 [] OTHER -> revoked
    IN  [s EXCEPT !.castleRightsLog = Append(s.castleRightsLog, new),
                  !.currentCastlingRight = new,
                  !.castleAlias = Len(s.castleRightsLog) + 1]

\* GameState.updateCastleRights: a copy of the live rights is appended to the
\* history, the live rights become that very entry, and the entry is then
\* changed in place
updateCastleRights(s, move) ==
    LET new == RevokedRights(s.currentCastlingRight, move)
    IN  [s EXCEPT !.castleRightsLog = Append(s.castleRightsLog, new),
                  !.currentCastlingRight = new,
                  !.castleAlias = Len(s.castleRightsLog) + 1]

\* the board after makeMove (lines 46-47, 63-78)
BoardAfterMove(b, move) ==
    LET b1 == SetSq(SetSq(b, move.startRow, move.startCol, "--"),
                    move.endRow, move.endCol, move.pieceMoved)
        b2 == IF move.isEnpassantMove
              THEN SetSq(b1, move.startRow, move.endCol, "--")
              ELSE b1
        b3 == IF move.isPawnPromotion
              THEN SetSq(b2, move.endRow, move.endCol, QueenOf(move.pieceMoved))
              ELSE b2
    IN  IF ~move.isCastleMove THEN b3
        ELSE IF move.endCol - move.startCol = 2
        THEN SetSq(SetSq(b3, move.endRow, move.endCol - 1, b3[move.endRow][move.endCol + 1]),
                   move.endRow, move.endCol + 1, "--")
        ELSE SetSq(SetSq(b3, move.endRow, move.endCol + 1, b3[move.endRow][move.endCol - 2]),
                   move.endRow, move.endCol - 2, "--")

\* variant: every pawn move sets a target
EnPassantTargetAnyPawnMove(move) ==
    IF Kind(move.pieceMoved) = "p"
    THEN <<(move.startRow + move.endRow) \div 2, move.startCol>>
    ELSE <<>>

\* makeMove, lines 56-60: the value assigned to enPassantPossible
EnPassantTarget(move) ==
    IF Kind(move.pieceMoved) = "p" /\ Abs(move.startRow - move.endRow) = 2
    THEN <<(move.startRow + move.endRow) \div 2, move.startCol>>
    ELSE <<>>

\* GameState.makeMove
makeMove(s, move) ==
    LET ep == EnPassantTarget(move)
        s1 == [s EXCEPT
                 !.board = BoardAfterMove(s.board, move),
                 !.moveLog = Append(s.moveLog, move),
                 !.whiteToMove = ~s.whiteToMove,
                 !.whiteKingLocation =
                     IF move.pieceMoved = "wK" THEN <<move.endRow, move.endCol>> ELSE @,
                 !.blackKingLocation =
                     IF move.pieceMoved = "bK" THEN <<move.endRow, move.endCol>> ELSE @,
                 !.enPassantPossible = ep,
                 !.enPassantPossibleLog = Append(s.enPassantPossibleLog, ep)]
        s2 == updateCastleRights(s1, move)
    IN  [s2 EXCEPT !.castleRightsLog = Append(s2.castleRightsLog, s2.currentCastlingRight)]

\* the sequence without its last element: list.pop()
Pop(q) == SubSeq(q, 1, Len(q) - 1)

Last(q) == q[Len(q)]

\* the board after an undoMove without the lines 105-107: the pawn captured
\* en passant is put on the landing square
BoardAfterUndoNoEnPassant(b, move) ==
    LET b2 == SetSq(SetSq(b, move.startRow, move.startCol, move.pieceMoved),
                    move.endRow, move.endCol, move.pieceCaptured)
    IN  IF ~move.isCastleMove THEN b2
        ELSE IF move.endCol - move.startCol = 2
        THEN SetSq(SetSq(b2, move.endRow, move.endCol + 1, b2[move.endRow][move.endCol - 1]),
                   move.endRow, move.endCol - 1, "--")
        ELSE SetSq(SetSq(b2, move.endRow, move.endCol - 2, b2[move.endRow][move.endCol + 1]),
                   move.endRow, move.endCol + 1, "--")

\* the board after undoMove (lines 96-97, 105-107, 123-129)
BoardAfterUndo(b, move) ==
    LET b1 == SetSq(SetSq(b, move.startRow, move.startCol, move.pieceMoved),
                    move.endRow, move.endCol, move.pieceCaptured)
        b2 == IF move.isEnpassantMove
              THEN SetSq(SetSq(b1, move.endRow, move.endCol, "--"),
                         move.startRow, move.endCol, move.pieceCaptured)
              ELSE b1
    IN  IF ~move.isCastleMove THEN b2
        ELSE IF move.endCol - move.startCol = 2
        THEN SetSq(SetSq(b2, move.endRow, move.endCol + 1, b2[move.endRow][move.endCol - 1]),
                   move.endRow, move.endCol - 1, "--")
        ELSE SetSq(SetSq(b2, move.endRow, move.endCol - 2, b2[move.endRow][move.endCol + 1]),
                   move.endRow, move.endCol + 1, "--")

\* variant: the side to move is not switched back
UndoLastKeepingTurn(s) ==
        LET move == Last(s.moveLog)
            epLog == Pop(s.enPassantPossibleLog)
            crLog == Pop(s.castleRightsLog)
            newRights == Last(crLog)
        IN  [s EXCEPT
               !.moveLog = Pop(s.moveLog),
               !.board = BoardAfterUndo(s.board, move),
               !.whiteKingLocation =
                   IF move.pieceMoved = "wK" THEN <<move.startRow, move.startCol>> ELSE @,
               !.blackKingLocation =
                   IF move.pieceMoved = "bK" THEN <<move.startRow, move.startCol>> ELSE @,
               !.enPassantPossibleLog = epLog,
               !.enPassantPossible = Last(epLog),
               !.castleRightsLog = crLog,
               !.currentCastlingRight =
                   CastleRights(newRights.wks, newRights.bks, newRights.wqs, newRights.bqs),
               !.castleAlias = 0,
               !.checkmate = FALSE,
               !.stalemate = FALSE]

\* undoMove, lines 95-132: the body run when there is a move to undo
UndoLast(s) ==
        LET move == Last(s.moveLog)
            epLog == Pop(s.enPassantPossibleLog)
            crLog == Pop(s.castleRightsLog)
            newRights == Last(crLog)
        IN  [s EXCEPT
               !.moveLog = Pop(s.moveLog),
               !.board = BoardAfterUndo(s.board, move),
               !.whiteToMove = ~s.whiteToMove,
               !.whiteKingLocation =
                   IF move.pieceMoved = "wK" THEN <<move.startRow, move.startCol>> ELSE @,
               !.blackKingLocation =
                   IF move.pieceMoved = "bK" THEN <<move.startRow, move.startCol>> ELSE @,
               !.enPassantPossibleLog = epLog,
               !.enPassantPossible = Last(epLog),
               !.castleRightsLog = crLog,
               !.currentCastlingRight =
                   CastleRights(newRights.wks, newRights.bks, newRights.wqs, newRights.bqs),
               !.castleAlias = 0,
               !.checkmate = FALSE,
               !.stalemate = FALSE]

\* an undoMove that switches the turn back outside the test of line 94
undoMoveUnguarded(s) ==
    IF Len(s.moveLog) = 0 THEN [s EXCEPT !.whiteToMove = ~s.whiteToMove] ELSE UndoLast(s)

\* GameState.undoMove
undoMove(s) ==
    IF Len(s.moveLog) = 0 THEN s ELSE UndoLast(s)

(***************************************************************************)
(* Check and pin detection.                                                *)
(***************************************************************************)
\* checkForPinsAndChecks: directions (line 316)
directions ==
    << <<-1, 0>>, <<0, -1>>, <<1, 0>>, <<0, 1>>,
       <<-1, -1>>, <<-1, 1>>, <<1, -1>>, <<1, 1>> >>

\* checkForPinsAndChecks: knight_moves (line 354)
knight_moves ==
    << <<-2, -1>>, <<-2, 1>>, <<-1, 2>>, <<1, 2>>,
       <<2, -1>>, <<2, 1>>, <<-1, -2>>, <<1, -2>> >>

\* variant: the queen attacks along the rows and columns only
RayAttackerQueenOrthogonal(enemy_color, enemy_type, j, i) ==
    \/ (0 <= j /\ j <= 3 /\ enemy_type = "R")
    \/ (4 <= j /\ j <= 7 /\ enemy_type = "B")
    \/ (i = 1 /\ enemy_type = "p"
          /\ ((enemy_color = "w" /\ 6 <= j /\ j <= 7)
              \/ (enemy_color = "b" /\ 4 <= j /\ j <= 5)))
    \/ (0 <= j /\ j <= 3 /\ enemy_type = "Q")
    \/ (i = 1 /\ enemy_type = "K")

\* the condition of lines 338-341: the enemy piece of kind enemy_type, i squares
\* away in direction number j, attacks the king
RayAttacker(enemy_color, enemy_type, j, i) ==
    \/ (0 <= j /\ j <= 3 /\ enemy_type = "R")
    \/ (4 <= j /\ j <= 7 /\ enemy_type = "B")
    \/ (i = 1 /\ enemy_type = "p"
          /\ ((enemy_color = "w" /\ 6 <= j /\ j <= 7)
              \/ (enemy_color = "b" /\ 4 <= j /\ j <= 5)))
    \/ enemy_type = "Q"
    \/ (i = 1 /\ enemy_type = "K")

\* the inner loop of checkForPinsAndChecks (lines 320-352) from distance i on,
\* for direction number j: what the ray adds, a check, a pin or nothing
RECURSIVE ScanRay(_, _, _, _, _, _, _, _)
ScanRay(b, ally_color, enemy_color, start_row, start_col, j, i, possible_pin) ==
    LET direction == directions[j + 1]
        end_row == start_row + direction[1] * i
        end_col == start_col + direction[2] * i
        none == [kind |-> "none", t |-> <<>>]
    IN  IF i > 7 \/ ~OnBoard(end_row, end_col) THEN none
        ELSE
            LET end_piece == b[end_row][end_col]
            IN  IF Color(end_piece) = ally_color /\ Kind(end_piece) # "K"
                THEN IF possible_pin = <<>>
                     THEN ScanRay(b, ally_color, enemy_color, start_row, start_col, j, i + 1,
                                  <<end_row, end_col, direction[1], direction[2]>>)
                     ELSE none
                ELSE IF Color(end_piece) = enemy_color
                THEN IF RayAttacker(enemy_color, Kind(end_piece), j, i)
                     THEN IF possible_pin = <<>>
                          THEN [kind |-> "check",
                                t |-> <<end_row, end_col, direction[1], direction[2]>>]
                          ELSE [kind |-> "pin", t |-> possible_pin]
                     ELSE none
                ELSE ScanRay(b, ally_color, enemy_color, start_row, start_col, j, i + 1,
                             possible_pin)

\* the t fields of the entries of kind k, in order
TuplesOfKind(rs, k) ==
    LET sel == SelectSeq(rs, LAMBDA x : x.kind = k)
    IN  [n \in 1..Len(sel) |-> sel[n].t]

\* checkForPinsAndChecks, lines 355-362: what the knight offset number n adds
KnightCheck(b, enemy_color, start_row, start_col, n) ==
    LET move == knight_moves[n]
        end_row == start_row + move[1]
        end_col == start_col + move[2]
    IN  IF OnBoard(end_row, end_col)
           /\ Color(b[end_row][end_col]) = enemy_color
           /\ Kind(b[end_row][end_col]) = "N"
        THEN [kind |-> "check", t |-> <<end_row, end_col, move[1], move[2]>>]
        ELSE [kind |-> "none", t |-> <<>>]

\* GameState.checkForPinsAndChecks: (in_check, pins, checks)
checkForPinsAndChecks(s) ==
    LET enemy_color == IF s.whiteToMove THEN "b" ELSE "w"
        ally_color == IF s.whiteToMove THEN "w" ELSE "b"
        king == IF s.whiteToMove THEN s.whiteKingLocation ELSE s.blackKingLocation
        Result(rays, knights) ==
            LET chk == TuplesOfKind(rays, "check") \o TuplesOfKind(knights, "check")
            IN  [in_check |-> Len(chk) > 0, pins |-> TuplesOfKind(rays, "pin"), checks |-> chk]
    IN  The({ Result(rays, knights) :
              rays \in {[n \in 1..8 |->
                          ScanRay(s.board, ally_color, enemy_color, king[1], king[2],
                                  n - 1, 1, <<>>)]},
              knights \in {[n \in 1..8 |->
                          KnightCheck(s.board, enemy_color, king[1], king[2], n)]} })

(***************************************************************************)
(* Per-piece move generation.  The source's generators append to the list  *)
(* they are handed; here each returns the moves it appends, in order.      *)
(***************************************************************************)
\* list.remove(x): the list without its first element equal to x
RemoveFirst(q, x) ==
    IF \A k \in 1..Len(q) : q[k] # x THEN q
    ELSE LET k == CHOOSE n \in 1..Len(q) : q[n] = x /\ \A n2 \in 1..(n - 1) : q[n2] # x
         IN  SubSeq(q, 1, k - 1) \o SubSeq(q, k + 1, Len(q))

\* getPawnMoves, lines 371-376: the index of the pin of the piece on (r, c)
\* found going through the pins backwards, 0 when it is not pinned
PinIndex(pinList, r, c) ==
    IF \A k \in 1..Len(pinList) : ~(pinList[k][1] = r /\ pinList[k][2] = c) THEN 0
    ELSE CHOOSE k \in 1..Len(pinList) :
            /\ pinList[k][1] = r /\ pinList[k][2] = c
            /\ \A k2 \in (k + 1)..Len(pinList) :
                   ~(pinList[k2][1] = r /\ pinList[k2][2] = c)

\* getPawnMoves, lines 398-416 (dc = -1) and 423-441 (dc = 1): the test of the
\* king's rank before an en-passant capture towards column c + dc is appended.
\* The first pass of the loop over outsideRange reads the undefined name
\* seqare, which raises NameError; attackingPiece is therefore still False
\* whenever line 416 / 441 is reached.
EnPassantRankTest(b, r, c, dc, kingRow, kingCol) ==
    LET kingLeft == kingCol < c
        insideRange ==
            IF dc = -1
            THEN (IF kingLeft THEN (kingCol + 1)..(c - 2) ELSE (c + 1)..(kingCol - 1))
            ELSE (IF kingLeft THEN (kingCol + 1)..(c - 1) ELSE (c + 2)..(kingCol - 1))
        outsideRange ==
            IF dc = -1
            THEN (IF kingLeft THEN (c + 1)..7 ELSE 0..(c - 2))
            ELSE (IF kingLeft THEN (c + 2)..7 ELSE 0..(c - 1))
        blockingPiece == kingRow = r /\ \E i \in insideRange : b[r][i] # "--"
        attackingPiece == FALSE
    IN  IF kingRow = r /\ outsideRange # {} THEN "NameError"
        ELSE IF ~attackingPiece \/ blockingPiece THEN "append"
        ELSE "skip"

\* getPawnMoves, lines 393-417 (dc = -1) and 418-442 (dc = 1): the captures
\* towards column c + dc
PawnCaptures(s, r, c, dc, piecePinned, pinDirection) ==
    LET moveAmount == IF s.whiteToMove THEN -1 ELSE 1
        enemyColor == IF s.whiteToMove THEN "b" ELSE "w"
        king == IF s.whiteToMove THEN s.whiteKingLocation ELSE s.blackKingLocation
        none == [moves |-> <<>>, err |-> ""]
    IN  IF ~(0 <= c + dc /\ c + dc <= 7) THEN none
        ELSE IF piecePinned /\ pinDirection # <<moveAmount, dc>> THEN none
        ELSE
            LET plain == IF Color(s.board[r + moveAmount][c + dc]) = enemyColor
                         THEN << Move(<<r, c>>, <<r + moveAmount, c + dc>>, s.board, FALSE, FALSE) >>
                         ELSE <<>>
            IN  IF <<r + moveAmount, c + dc>> # s.enPassantPossible
                THEN [moves |-> plain, err |-> ""]
                ELSE
                    LET test == EnPassantRankTest(s.board, r, c, dc, king[1], king[2])
                    IN  CASE test = "NameError" -> [moves |-> plain, err |-> "NameError"]
                          [] test = "append" ->
                                [moves |-> Append(plain,
                                     Move(<<r, c>>, <<r + moveAmount, c + dc>>, s.board, TRUE, FALSE)),
                                 err |-> ""]
                          [] OTHER -> [moves |-> plain, err |-> ""]

\* the start rows of the two colours exchanged
PawnStartRowSwapped(isWhite) == IF isWhite THEN 1 ELSE 6

\* getPawnMoves, lines 379 and 384: startRow
PawnStartRow(isWhite) == IF isWhite THEN 6 ELSE 1

\* GameState.getPawnMoves: the moves appended, self.pins afterwards, and the
\* exception raised, if any
getPawnMoves(s, r, c) ==
    LET k == PinIndex(s.pins, r, c)
        piecePinned == k # 0
        pinDirection == IF k # 0 THEN <<s.pins[k][3], s.pins[k][4]>> ELSE <<>>
        pinsAfter == IF k # 0 THEN RemoveFirst(s.pins, s.pins[k]) ELSE s.pins
        moveAmount == IF s.whiteToMove THEN -1 ELSE 1
        startRow == PawnStartRow(s.whiteToMove)
        advance ==
            IF s.board[r + moveAmount][c] = "--"
               /\ (~piecePinned \/ pinDirection = <<moveAmount, 0>>)
            THEN << Move(<<r, c>>, <<r + moveAmount, c>>, s.board, FALSE, FALSE) >>
                 \o (IF r = startRow /\ s.board[r + 2 * moveAmount][c] = "--"
                     THEN << Move(<<r, c>>, <<r + 2 * moveAmount, c>>, s.board, FALSE, FALSE) >>
                     ELSE <<>>)
            ELSE <<>>
        left == PawnCaptures(s, r, c, -1, piecePinned, pinDirection)
        right == PawnCaptures(s, r, c, 1, piecePinned, pinDirection)
    IN  IF left.err # "" THEN [moves |-> advance \o left.moves, pins |-> pinsAfter, err |-> left.err]
        ELSE [moves |-> advance \o left.moves \o right.moves, pins |-> pinsAfter,
              err |-> right.err]

\* the loop over i of getRookMoves / getBishopMoves (lines 483-496, 517-530)
\* from distance i on, in direction d
RECURSIVE SlideMoves(_, _, _, _, _, _)
SlideMoves(b, r, c, d, i, enemyColor) ==
    LET endRow == r + d[1] * i
        endCol == c + d[2] * i
    IN  IF i > 7 \/ ~OnBoard(endRow, endCol) THEN <<>>
        ELSE LET endPiece == b[endRow][endCol]
                 m == Move(<<r, c>>, <<endRow, endCol>>, b, FALSE, FALSE)
             IN  IF endPiece = "--"
                 THEN <<m>> \o SlideMoves(b, r, c, d, i + 1, enemyColor)
                 ELSE IF Color(endPiece) = enemyColor THEN <<m>>
                 ELSE <<>>

\* GameState.getRookMoves
getRookMoves(s, r, c) ==
    LET enemyColor == IF s.whiteToMove THEN "b" ELSE "w"
    IN  SlideMoves(s.board, r, c, <<-1, 0>>, 1, enemyColor)
        \o SlideMoves(s.board, r, c, <<0, -1>>, 1, enemyColor)
        \o SlideMoves(s.board, r, c, <<1, 0>>, 1, enemyColor)
        \o SlideMoves(s.board, r, c, <<0, 1>>, 1, enemyColor)

\* GameState.getBishopMoves
getBishopMoves(s, r, c) ==
    LET enemyColor == IF s.whiteToMove THEN "b" ELSE "w"
    IN  SlideMoves(s.board, r, c, <<-1, -1>>, 1, enemyColor)
        \o SlideMoves(s.board, r, c, <<-1, 1>>, 1, enemyColor)
        \o SlideMoves(s.board, r, c, <<1, -1>>, 1, enemyColor)
        \o SlideMoves(s.board, r, c, <<1, 1>>, 1, enemyColor)

\* variant: the rook directions are generated a second time
getQueenMovesRookTwice(s, r, c) ==
    getRookMoves(s, r, c) \o getBishopMoves(s, r, c) \o getRookMoves(s, r, c)

\* GameState.getQueenMoves
getQueenMoves(s, r, c) == getRookMoves(s, r, c) \o getBishopMoves(s, r, c)

\* the moves to the squares r + o[1], c + o[2] for o in offsets, in order, that
\* are on the board and hold no piece of allyColor (lines 503-509, 542-548)
StepMoves(b, r, c, offsets, allyColor) ==
    LET ok == SelectSeq(offsets, LAMBDA o :
                  OnBoard(r + o[1], c + o[2]) /\ Color(b[r + o[1]][c + o[2]]) # allyColor)
    IN  [n \in 1..Len(ok) |->
            Move(<<r, c>>, <<r + ok[n][1], c + ok[n][2]>>, b, FALSE, FALSE)]

\* getKnightMoves: knightMoves (line 501)
knightMoves ==
    << <<-2, -1>>, <<-2, 1>>, <<-1, -2>>, <<-1, 2>>,
       <<1, -2>>, <<1, 2>>, <<2, -1>>, <<2, 1>> >>

\* getKingMoves: kingMoves (line 540)
kingMoves ==
    << <<-1, -1>>, <<-1, 0>>, <<-1, 1>>, <<0, -1>>,
       <<0, 1>>, <<1, -1>>, <<1, 0>>, <<1, 1>> >>

\* GameState.getKnightMoves
getKnightMoves(s, r, c) ==
    StepMoves(s.board, r, c, knightMoves, IF s.whiteToMove THEN "w" ELSE "b")

\* GameState.getKingMoves
getKingMoves(s, r, c) ==
    StepMoves(s.board, r, c, kingMoves, IF s.whiteToMove THEN "w" ELSE "b")

\* self.moveFunctions[piece](r, c, moves)
PieceMoves(s, r, c) ==
    LET piece == Kind(s.board[r][c])
        NoPins(moves) == [moves |-> moves, pins |-> s.pins, err |-> ""]
    IN  CASE piece = "p" -> getPawnMoves(s, r, c)
          [] piece = "R" -> NoPins(getRookMoves(s, r, c))
          [] piece = "N" -> NoPins(getKnightMoves(s, r, c))
          [] piece = "B" -> NoPins(getBishopMoves(s, r, c))
          [] piece = "Q" -> NoPins(getQueenMoves(s, r, c))
          [] OTHER -> NoPins(getKingMoves(s, r, c))

\* the body of the loops of getAllPossibleMoves (lines 295-298) for the square
\* (r, c), acc holding the moves collected, the pins left and the exception
\* raised so far
ScanSquare(s, r, c, acc) ==
    LET turn == Color(s.board[r][c])
        Add(res) == [moves |-> acc.moves \o res.moves, pins |-> res.pins, err |-> res.err]
    IN  IF (turn = "w" /\ s.whiteToMove) \/ (turn = "b" /\ ~s.whiteToMove)
        THEN The({ Add(res) : res \in {PieceMoves([s EXCEPT !.pins = acc.pins], r, c)} })
        ELSE acc

\* the inner loop of getAllPossibleMoves (line 294) from column c on; an
\* exception ends it
RECURSIVE ScanRow(_, _, _, _)
ScanRow(s, r, c, acc) ==
    IF c > 7 \/ acc.err # "" THEN acc
    ELSE The({ ScanRow(s, r, c1, acc1) : c1 \in {c + 1}, acc1 \in {ScanSquare(s, r, c, acc)} })

\* the outer loop of getAllPossibleMoves (line 293) from row r on
RECURSIVE ScanRows(_, _, _)
ScanRows(s, r, acc) ==
    IF r > 7 \/ acc.err # "" THEN acc
    ELSE The({ ScanRows(s, r1, acc1) : r1 \in {r + 1}, acc1 \in {ScanRow(s, r, 0, acc)} })

\* GameState.getAllPossibleMoves: the moves, self.pins afterwards, and the
\* exception raised, if any
getAllPossibleMoves(s) ==
    ScanRows(s, 0, [moves |-> <<>>, pins |-> s.pins, err |-> ""])

(***************************************************************************)
(* Legal move assembly.                                                    *)
(***************************************************************************)
\* the squares of the lines 201-210 without the break of line 210: the ray
\* goes on behind the checking piece
ValidSquaresNoBreak(b, kingRow, kingCol, check) ==
    IF Kind(b[check[1]][check[2]]) = "N" THEN {<<check[1], check[2]>>}
    ELSE {<<kingRow + check[3] * i, kingCol + check[4] * i>> : i \in 1..7}

\* getValidMoves, lines 201-210: the squares a piece may move to in order to
\* capture the checking piece or to block the check
ValidSquares(b, kingRow, kingCol, check) ==
    LET checkRow == check[1]
        checkCol == check[2]
        sq(i) == <<kingRow + check[3] * i, kingCol + check[4] * i>>
    IN  IF Kind(b[checkRow][checkCol]) = "N" THEN {<<checkRow, checkCol>>}
        ELSE {sq(i) : i \in {n \in 1..7 :
                                \A n2 \in 1..(n - 1) : sq(n2) # <<checkRow, checkCol>>}}

\* list.remove(move) on a list of Move values, which compare by Move.__eq__
RemoveFirstMove(q, x) ==
    IF \A k \in 1..Len(q) : ~MoveEq(q[k], x) THEN q
    ELSE LET k == CHOOSE n \in 1..Len(q) :
                     MoveEq(q[n], x) /\ \A n2 \in 1..(n - 1) : ~MoveEq(q[n2], x)
         IN  SubSeq(q, 1, k - 1) \o SubSeq(q, k + 1, Len(q))

\* getValidMoves, lines 212-215: going through the list backwards from index
\* i (counted from 1), remove the moves that neither move the king nor end on
\* a valid square
RECURSIVE RemoveNonBlocking(_, _, _)
RemoveNonBlocking(moves, i, validSquares) ==
    IF i < 1 THEN moves
    ELSE IF Kind(moves[i].pieceMoved) # "K"
            /\ <<moves[i].endRow, moves[i].endCol>> \notin validSquares
    THEN The({ RemoveNonBlocking(rest, i1, validSquares) :
               rest \in {RemoveFirstMove(moves, moves[i])}, i1 \in {i - 1} })
    ELSE The({ RemoveNonBlocking(moves, i1, validSquares) : i1 \in {i - 1} })

\* getValidMoves, lines 193-219: the moves collected (with the pins left and the
\* exception raised), s being the state after line 186
CollectMoves(s) ==
    LET king == IF s.whiteToMove THEN s.whiteKingLocation ELSE s.blackKingLocation
        OnlyBlocking(all, validSquares) ==
            [all EXCEPT !.moves = RemoveNonBlocking(all.moves, Len(all.moves), validSquares)]
    IN  IF s.inCheck
        THEN IF Len(s.checks) = 1
             THEN The({ IF all.err # "" THEN all ELSE OnlyBlocking(all, validSquares) :
                        all \in {getAllPossibleMoves(s)},
                        validSquares \in {ValidSquares(s.board, king[1], king[2], s.checks[1])} })
             ELSE [moves |-> getKingMoves(s, king[1], king[2]), pins |-> s.pins, err |-> ""]
        ELSE getAllPossibleMoves(s)

\* variant: an empty list sets stalemate, in check or not
SetTerminalFlagsStalemateOnly(s, moves) ==
    IF Len(moves) = 0
    THEN [s EXCEPT !.stalemate = TRUE]
    ELSE [s EXCEPT !.checkmate = FALSE, !.stalemate = FALSE]

\* getValidMoves, lines 221-228: the checkmate and stalemate flags are set from
\* the list about to be returned
SetTerminalFlags(s, moves) ==
    IF Len(moves) = 0
    THEN IF s.inCheck
         THEN [s EXCEPT !.checkmate = TRUE]
         ELSE [s EXCEPT !.stalemate = TRUE]
    ELSE [s EXCEPT !.checkmate = FALSE, !.stalemate = FALSE]

\* variant: the side to move is switched as well, as squareUnderAttack
\* (lines 280-287) would leave it without its second switch
AssignChecksSwitchingTurn(s, cp) ==
    [s EXCEPT !.inCheck = cp.in_check, !.pins = cp.pins, !.checks = cp.checks,
              !.whiteToMove = ~s.whiteToMove]

\* getValidMoves, line 186: the result of checkForPinsAndChecks is assigned to
\* inCheck, pins and checks
AssignChecks(s, cp) ==
    [s EXCEPT !.inCheck = cp.in_check, !.pins = cp.pins, !.checks = cp.checks]

\* GameState.getValidMoves: the state it leaves (inCheck, pins, checks and the
\* two flags are assigned), the list it returns, and the exception raised, if
\* any (the flags are then not assigned and nothing is returned)
getValidMoves(s) ==
    LET AfterChecks(cp) == AssignChecks(s, cp)
        Result(s1, got) ==
            IF got.err # ""
            THEN [s |-> [s1 EXCEPT !.pins = got.pins], moves |-> <<>>, err |-> got.err]
            ELSE [s |-> SetTerminalFlags([s1 EXCEPT !.pins = got.pins], got.moves),
                  moves |-> got.moves, err |-> ""]
        Collect(s1) == The({ Result(s1, got) : got \in {CollectMoves(s1)} })
    IN  The({ Collect(s1) : s1 \in {The({ AfterChecks(cp) : cp \in {checkForPinsAndChecks(s)} })} })

(***************************************************************************)
(* The callers.  A game is played through getValidMoves, makeMove and      *)
(* undoMove.  The moves played are drawn from the book below, a small set  *)
(* of games given by their moveIDs; from every position of the book any    *)
(* move of the list getValidMoves returned may be played as well.          *)
(***************************************************************************)
Book ==
    { \* 1.f3 e5 2.g4 Qh4: the queen checks the king on e1
      <<6555, 1434, 6646, 347>>,
      \* 1.d4 e6 2.Nc3 Bb4: the knight on c3 is pinned to the king on e1
      <<6343, 1424, 7152, 541>>,
      \* 1.e4 e5 2.Ke2 Qg5 3.Ke3 Qxe3
      <<6444, 1434, 7464, 336, 6454, 3654>>,
      \* 1.e4 e5 2.Nf3 Nc6 3.Bc4 Bc5: e1, f1, g1 are free for king-side castling
      <<6444, 1434, 7655, 122, 7542, 532>>,
      \* 1.e4 a6 2.e5 d5 3.exd6: an en-passant capture
      <<6444, 1020, 4434, 1333, 3423>>,
      \* 1.e4 a6 2.e5 a5 3.Ke2 a4 4.Ke3 a3 5.Kf4 axb2 6.Kg5 d5: an en-passant
      \* capture is available to the pawn on e5, with the king on its rank
      <<6444, 1020, 4434, 2030, 7464, 3040, 6454, 4050, 5445, 5061, 4536, 1333>>,
      \* ... 6.Kg5 bxa1=Q: a promotion that captures the rook on its corner
      <<6444, 1020, 4434, 2030, 7464, 3040, 6454, 4050, 5445, 5061, 4536, 6170>>,
      \* 1.a4 a6 2.Ra2 a5 3.Ra1: the rook leaves its corner and returns
      <<6040, 1020, 7060, 2030, 6070>>,
      \* 1.h3 a5 2.h4 a4 3.h5 a3 4.h6 axb2 5.hxg7 bxa1=Q: the rook is captured
      \* on its corner, the white king never moved; gxh8 can follow
      <<6757, 1030, 5747, 3040, 4737, 4050, 3727, 5061, 2716, 6170>>,
      \* 1.d4 Nc6 2.d5 Nb4 3.a3: the knight can check from d3 and from c2
      <<6343, 122, 4333, 2241, 6050>>,
      \* 1.e4 e5 2.Nc3 Ke7 3.Nd5 Ke6 4.Bc4 a6 5.Nxc7: the knight on c7 and the
      \* bishop on c4 both check the king on e6
      <<6444, 1434, 7152, 414, 5233, 1424, 7542, 1020, 3312>>,
      \* 1.e3 Nc6 2.Ne2 Ne5 3.g3 Nf3: the king on e1 is checked by the knight
      \* and every square next to it holds a white piece
      <<6454, 122, 7664, 2234, 6656, 3455>>,
      \* 1.e3 a5 2.Qh5 Ra6 3.Qxa5 h5 4.h4 Rah6 5.Qxc7 f6 6.Qxd7 Kf7 7.Qxb7 Qd3
      \* 8.Qxb8 Qh7 9.Qxc8 Kg6 10.Qe6: Black, not in check, has no legal move
      <<6454, 1030, 7337, 20, 3730, 1737, 6747, 2027, 3012, 1525, 1213, 415, 1311,
        353, 1101, 5317, 102, 1526, 224>> }

IsPrefix(p, q) == Len(p) <= Len(q) /\ \A k \in 1..Len(p) : p[k] = q[k]

\* the moveIDs of the moves of a log
IDs(log) == [k \in 1..Len(log) |-> log[k].moveID]

OnBook(ids) == \E line \in Book : IsPrefix(ids, line)

\* the variables of the GameState take the values of the record t
SetGS(t) ==
    /\ board' = t.board
    /\ moveLog' = t.moveLog
    /\ whiteToMove' = t.whiteToMove
    /\ whiteKingLocation' = t.whiteKingLocation
    /\ blackKingLocation' = t.blackKingLocation
    /\ inCheck' = t.inCheck
    /\ pins' = t.pins
    /\ checks' = t.checks
    /\ checkmate' = t.checkmate
    /\ stalemate' = t.stalemate
    /\ enPassantPossible' = t.enPassantPossible
    /\ enPassantPossibleLog' = t.enPassantPossibleLog
    /\ currentCastlingRight' = t.currentCastlingRight
    /\ castleRightsLog' = t.castleRightsLog
    /\ castleAlias' = t.castleAlias

\* the reference perft values for the depths 1, 2, 3 from the initial position
PerftReference == <<20, 400, 8902>>

\* the depth of the perft traversal
PerftDepth == Len(PerftReference)

\* main(), lines 40-51: the locals of the game loop, for the given values of
\* playerOne and playerTwo (both False in the source)
MainLocals(one, two) ==
    /\ playerOne = one
    /\ playerTwo = two
    /\ humanTurn = FALSE
    /\ moveMade = FALSE
    /\ moveUndone = FALSE
    /\ gameOver = FALSE
    /\ AIThinking = FALSE
    /\ searchMoves = <<>>
    /\ resets = 0
    /\ inputs = 0

\* main(), lines 38-39 up to the first call: a fresh GameState
Init ==
    /\ MainLocals(FALSE, FALSE)
    /\ board = InitGS.board
    /\ moveLog = InitGS.moveLog
    /\ whiteToMove = InitGS.whiteToMove
    /\ whiteKingLocation = InitGS.whiteKingLocation
    /\ blackKingLocation = InitGS.blackKingLocation
    /\ inCheck = InitGS.inCheck
    /\ pins = InitGS.pins
    /\ checks = InitGS.checks
    /\ checkmate = InitGS.checkmate
    /\ stalemate = InitGS.stalemate
    /\ enPassantPossible = InitGS.enPassantPossible
    /\ enPassantPossibleLog = InitGS.enPassantPossibleLog
    /\ currentCastlingRight = InitGS.currentCastlingRight
    /\ castleRightsLog = InitGS.castleRightsLog
    /\ castleAlias = InitGS.castleAlias
    /\ validMoves = <<>>
    /\ clickMove = <<>>
    /\ stale = TRUE
    /\ raised = ""
    /\ undone = 0
    /\ perftStack = <<>>
    /\ perftCount = [d \in 1..PerftDepth |-> 0]

\* validMoves = gs.getValidMoves()
GetValidMoves ==
    /\ raised = ""
    /\ stale
    /\ \E res \in {The({ getValidMoves(s) : s \in {GS} })} :
           /\ SetGS(res.s)
           /\ raised' = res.err
           /\ validMoves' = IF res.err = "" THEN res.moves ELSE validMoves
           /\ stale' = (res.err # "")
    /\ UNCHANGED <<clickMove, undone, perftStack, perftCount>>
    /\ UNCHANGED mainVars

\* main(), lines 70-81: the two clicks name the squares of validMoves[i], the
\* list being the one of the current position; move is built from them on
\* the current board and gs.makeMove(validMoves[i]) is called for the entry
\* that compares equal to it
MakeMove(i) ==
    /\ raised = ""
    /\ ~stale
    /\ i \in 1..Len(validMoves)
    /\ OnBook(IDs(moveLog))
    /\ clickMove' = Move(<<validMoves[i].startRow, validMoves[i].startCol>>,
                         <<validMoves[i].endRow, validMoves[i].endCol>>, board, FALSE, FALSE)
    /\ \E t \in {The({ makeMove(s, move) : s \in {GS}, move \in {validMoves[i]} })} : SetGS(t)
    /\ stale' = TRUE
    /\ UNCHANGED <<validMoves, raised, undone, perftStack, perftCount>>
    /\ UNCHANGED mainVars

\* gs.undoMove(); on an empty log the call is not counted
UndoMove ==
    /\ raised = ""
    /\ undone < MaxUndo \/ Len(moveLog) = 0
    /\ \E t \in {The({ undoMove(s) : s \in {GS} })} : SetGS(t)
    /\ stale' = (stale \/ Len(moveLog) # 0)
    /\ undone' = IF Len(moveLog) # 0 THEN undone + 1 ELSE undone
    /\ UNCHANGED <<validMoves, clickMove, raised, perftStack, perftCount>>
    /\ UNCHANGED mainVars

Next ==
    \/ GetValidMoves
    \/ \E i \in 1..Len(validMoves) : MakeMove(i)
    \/ UndoMove

Spec == Init /\ [][Next]_vars

(***************************************************************************)
(* The perft traversal: the depth-first walk                               *)
(*     perft(d) = len(getValidMoves()) if d = 1, else the sum over m in    *)
(*                getValidMoves() of makeMove(m); perft(d - 1); undoMove() *)
(* run from the initial position, one call of the engine per step.         *)
(* perftStack holds, per depth entered, the moves of that depth's list not *)
(* yet visited; perftCount[d] counts the paths of length d found so far.   *)
(***************************************************************************)
\* moves = gs.getValidMoves() at a node of the traversal; the node's moves
\* are the paths one move longer, counted by the length of the list
PerftExpand ==
    /\ raised = ""
    /\ Len(moveLog) < PerftDepth
    /\ Len(perftStack) = Len(moveLog)
    /\ \E res \in {The({ getValidMoves(s) : s \in {GS} })} :
           /\ SetGS(res.s)
           /\ raised' = res.err
           /\ validMoves' = IF res.err = "" THEN res.moves ELSE validMoves
           /\ perftStack' = IF res.err = "" THEN Append(perftStack, res.moves) ELSE perftStack
           /\ perftCount' = IF res.err = ""
                            THEN [perftCount EXCEPT ![Len(moveLog) + 1] = @ + Len(res.moves)]
                            ELSE perftCount
           /\ stale' = (res.err # "")
    /\ UNCHANGED <<clickMove, undone>>
    /\ UNCHANGED mainVars

\* gs.makeMove(m) for the next move m of the node's list, above the last depth
PerftVisit ==
    /\ raised = ""
    /\ Len(moveLog) + 1 < PerftDepth
    /\ Len(perftStack) = Len(moveLog) + 1
    /\ Len(Last(perftStack)) > 0
    /\ \E t \in {The({ makeMove(s, move) : s \in {GS}, move \in {Head(Last(perftStack))} })} :
           SetGS(t)
    /\ perftStack' = [perftStack EXCEPT ![Len(perftStack)] = Tail(@)]
    /\ stale' = TRUE
    /\ UNCHANGED <<validMoves, clickMove, raised, undone, perftCount>>
    /\ UNCHANGED mainVars

\* gs.undoMove() when the node is at the last depth or its list is exhausted
PerftReturn ==
    /\ raised = ""
    /\ Len(moveLog) > 0
    /\ Len(perftStack) = Len(moveLog) + 1
    /\ Len(moveLog) + 1 = PerftDepth \/ Len(Last(perftStack)) = 0
    /\ \E t \in {The({ undoMove(s) : s \in {GS} })} : SetGS(t)
    /\ perftStack' = SubSeq(perftStack, 1, Len(moveLog))
    /\ stale' = TRUE
    /\ UNCHANGED <<validMoves, clickMove, raised, undone, perftCount>>
    /\ UNCHANGED mainVars

\* the traversal is over: back at the root with its list exhausted
PerftDone ==
    /\ Len(moveLog) = 0
    /\ Len(perftStack) = 1
    /\ Len(perftStack[1]) = 0

NextPerft ==
    \/ PerftExpand
    \/ PerftVisit
    \/ PerftReturn

SpecPerft == Init /\ [][NextPerft]_vars

(***************************************************************************)
(* Move values on their own: Move(startSq, endSq, board, ...) built for    *)
(* any two squares, on a board and with flags drawn from MoveInputs.       *)
(***************************************************************************)
\* the initial board and the board after 1.a4; with the flags left at their
\* defaults on the first and both set on the second
MoveInputs ==
    { <<InitBoard, FALSE, FALSE>>,
      <<BoardAfterMove(InitBoard, Move(<<6, 0>>, <<4, 0>>, InitBoard, FALSE, FALSE)),
        TRUE, TRUE>> }

\* move = Move(startSq, endSq, b, isEnpassantMove, isCastleMove), the first
\* Move built
BuildMove(startSq, endSq, b, isEnpassantMove, isCastleMove) ==
    /\ clickMove = <<>>
    /\ clickMove' = Move(startSq, endSq, b, isEnpassantMove, isCastleMove)
    /\ UNCHANGED <<board, moveLog, whiteToMove, whiteKingLocation, blackKingLocation,
                   inCheck, pins, checks, checkmate, stalemate, enPassantPossible,
                   enPassantPossibleLog, currentCastlingRight, castleRightsLog,
                   castleAlias, validMoves, stale, raised, undone, perftStack,
                   perftCount>>
    /\ UNCHANGED mainVars

NextMove ==
    \E startSq \in (0..7) \X (0..7), endSq \in (0..7) \X (0..7), in \in MoveInputs :
        BuildMove(startSq, endSq, in[1], in[2], in[3])

SpecMove == Init /\ [][NextMove]_vars

(***************************************************************************)
(* The game loop of main().  One pass of the loop computes humanTurn (line *)
(* 54), handles the input events queued since the pass before (lines       *)
(* 55-107), runs the move search section (110-126), computes validMoves    *)
(* again when moveMade is set (128-134) and tests for the end of the game  *)
(* (138-142).  An event is one step; the rest of the pass, up to line 54   *)
(* of the pass after, is one step.  Clicks that do not name a move of      *)
(* validMoves leave the game state alone and are not steps.                *)
(***************************************************************************)
\* the moves the loop is explored with, by moveID: those of the game
\* 1.e3 Nc6 2.Ne2 Ne5 3.g3 Nf3, made in any order the lists offer them, up
\* to the length of that game
MainLine == <<6454, 122, 7664, 2234, 6656, 3455>>

Playable(m) ==
    /\ \E k \in 1..Len(MainLine) : m.moveID = MainLine[k]
    /\ Len(moveLog) < Len(MainLine)

\* the variables of the GameState have the values of the record t
IsGS(t) ==
    /\ board = t.board
    /\ moveLog = t.moveLog
    /\ whiteToMove = t.whiteToMove
    /\ whiteKingLocation = t.whiteKingLocation
    /\ blackKingLocation = t.blackKingLocation
    /\ inCheck = t.inCheck
    /\ pins = t.pins
    /\ checks = t.checks
    /\ checkmate = t.checkmate
    /\ stalemate = t.stalemate
    /\ enPassantPossible = t.enPassantPossible
    /\ enPassantPossibleLog = t.enPassantPossibleLog
    /\ currentCastlingRight = t.currentCastlingRight
    /\ castleRightsLog = t.castleRightsLog
    /\ castleAlias = t.castleAlias

\* main(), line 54, in the state s
HumanTurnValue(s) ==
    (s.whiteToMove /\ playerOne) \/ (~s.whiteToMove /\ playerTwo)

\* main(), lines 38-54 of the first pass: the list of the initial position is
\* computed.  playerOne and playerTwo are the two switches of lines 47-48: the
\* source sets both to False, the search then plays both sides, and sets one
\* to True for a human player of that colour
InitMain ==
    /\ \E res \in {getValidMoves(InitGS)} :
           /\ IsGS(res.s)
           /\ validMoves = res.moves
    /\ clickMove = <<>>
    /\ stale = FALSE
    /\ raised = ""
    /\ undone = 0
    /\ perftStack = <<>>
    /\ perftCount = [d \in 1..PerftDepth |-> 0]
    /\ playerOne \in BOOLEAN
    /\ playerTwo \in BOOLEAN
    /\ humanTurn = playerOne
    /\ moveMade = FALSE
    /\ moveUndone = FALSE
    /\ gameOver = FALSE
    /\ AIThinking = FALSE
    /\ searchMoves = <<>>
    /\ resets = 0
    /\ inputs = 0

\* main(), lines 73-79: gs.makeMove(validMoves[i]) for every entry of the list
\* that compares equal to move, ms being those entries in order
RECURSIVE MakeAll(_, _)
MakeAll(s, ms) ==
    IF ms = <<>> THEN s ELSE MakeAll(makeMove(s, Head(ms)), Tail(ms))

\* main(), lines 59-81: a pair of clicks on the start and end squares of
\* validMoves[i], handled while humanTurn is set
ClickPair(i) ==
    /\ raised = ""
    /\ ~gameOver
    /\ humanTurn
    /\ i \in 1..Len(validMoves)
    /\ Playable(validMoves[i])
    /\ \E move \in {Move(<<validMoves[i].startRow, validMoves[i].startCol>>,
                         <<validMoves[i].endRow, validMoves[i].endCol>>, board, FALSE, FALSE)} :
           /\ clickMove' = move
           /\ \E t \in {The({ MakeAll(s, SelectSeq(validMoves, LAMBDA m : MoveEq(move, m))) :
                              s \in {GS} })} : SetGS(t)
    /\ moveMade' = TRUE
    /\ stale' = TRUE
    /\ UNCHANGED <<validMoves, raised, undone, perftStack, perftCount, playerOne,
                   playerTwo, humanTurn, moveUndone, gameOver, AIThinking,
                   searchMoves, resets>>

\* main(), lines 84-94: the 'u' key
KeyU ==
    /\ raised = ""
    /\ undone < MaxUndo \/ Len(moveLog) = 0
    /\ \E t \in {The({ undoMove(s) : s \in {GS} })} : SetGS(t)
    /\ moveMade' = TRUE
    /\ gameOver' = FALSE
    /\ AIThinking' = FALSE
    /\ moveUndone' = TRUE
    /\ stale' = (stale \/ Len(moveLog) # 0)
    /\ undone' = IF Len(moveLog) # 0 THEN undone + 1 ELSE undone
    /\ UNCHANGED <<validMoves, clickMove, raised, perftStack, perftCount, playerOne,
                   playerTwo, humanTurn, searchMoves, resets>>

\* main(), lines 96-107: the 'r' key
KeyR ==
    /\ raised = ""
    /\ resets < MaxReset
    /\ \E res \in {The({ getValidMoves(s) : s \in {InitGS} })} :
           /\ SetGS(res.s)
           /\ validMoves' = res.moves
    /\ moveMade' = FALSE
    /\ gameOver' = FALSE
    /\ AIThinking' = FALSE
    /\ moveUndone' = TRUE
    /\ stale' = FALSE
    /\ resets' = resets + 1
    /\ UNCHANGED <<clickMove, raised, undone, perftStack, perftCount, playerOne,
                   playerTwo, humanTurn, searchMoves>>

\* the moves the search section may hand to makeMove at line 123: the result
\* of SmartMoveFinder.findBestMove, a move of the list args it was started with,
\* or, when that result is None, findRandomMove(moves), a move of validMoves
SearchResults(args, moves) == IF args = moves THEN args ELSE args \o moves

\* main(), line 110: the search section runs in this pass
SearchTurn == ~gameOver /\ ~humanTurn /\ ~moveUndone

\* main(), lines 110-142 and line 54 of the pass after: the search is started
\* when none runs; when the search process is not alive its k-th possible
\* result is made; validMoves is computed again when moveMade is set; gameOver
\* is set on checkmate or stalemate
EndOfPass(alive, k) ==
    /\ raised = ""
    /\ \E args \in {IF SearchTurn /\ ~AIThinking THEN validMoves ELSE searchMoves} :
       \E taken \in {SearchTurn /\ ~alive} :
       \E results \in {SearchResults(args, validMoves)} :
           /\ IF taken THEN k \in 1..Len(results) /\ Playable(results[k]) ELSE k = 0
           /\ \E s1 \in {IF taken THEN The({ makeMove(s, results[k]) : s \in {GS} }) ELSE GS} :
              \E res \in {IF moveMade \/ taken
                          THEN The({ getValidMoves(s) : s \in {s1} })
                          ELSE [s |-> s1, moves |-> validMoves, err |-> ""]} :
                  /\ SetGS(res.s)
                  /\ raised' = res.err
                  /\ validMoves' = IF res.err = "" THEN res.moves ELSE validMoves
                  /\ stale' = IF moveMade \/ taken THEN res.err # "" ELSE stale
                  /\ moveMade' = IF res.err = "" THEN FALSE ELSE TRUE
                  /\ moveUndone' = IF (moveMade \/ taken) /\ res.err = "" THEN FALSE
                                   ELSE moveUndone
                  /\ gameOver' = IF res.err = ""
                                 THEN gameOver \/ res.s.checkmate \/ res.s.stalemate
                                 ELSE gameOver
                  /\ humanTurn' = IF res.err = "" THEN HumanTurnValue(res.s) ELSE humanTurn
           /\ AIThinking' = IF SearchTurn THEN ~taken ELSE AIThinking
           /\ searchMoves' = args
    /\ UNCHANGED <<clickMove, undone, perftStack, perftCount, playerOne, playerTwo,
                   resets>>

\* the game loop with the input events left uncounted
NextMain ==
    \/ \E i \in 1..Len(validMoves) : ClickPair(i) /\ UNCHANGED inputs
    \/ KeyU /\ UNCHANGED inputs
    \/ KeyR /\ UNCHANGED inputs
    \/ \E alive \in BOOLEAN, k \in 0..(Len(searchMoves) + Len(validMoves)) :
           EndOfPass(alive, k) /\ UNCHANGED inputs

SpecMain == InitMain /\ [][NextMain]_vars

\* main(), line 55: one event taken from p.event.get() and handled, at most
\* MaxInputs of them in a run
InputEvent(handler) ==
    /\ inputs < MaxInputs
    /\ inputs' = inputs + 1
    /\ handler

\* main(), lines 53-145: a pass of the while loop that finds the event queue
\* empty, alive being moveFinderProcess.is_alive() and k the search's choice
Pass ==
    \E alive \in BOOLEAN, k \in 0..(Len(searchMoves) + Len(validMoves)) :
        EndOfPass(alive, k) /\ UNCHANGED inputs

\* lines 117-126 in a pass where the search process has ended: is_alive() is
\* False and the move the search returned is applied
SearchEnds ==
    \E k \in 0..(Len(searchMoves) + Len(validMoves)) :
        EndOfPass(FALSE, k) /\ UNCHANGED inputs

NextMainLive ==
    \/ \E i \in 1..Len(validMoves) : InputEvent(ClickPair(i))
    \/ InputEvent(KeyU)
    \/ InputEvent(KeyR)
    \/ Pass

\* the game loop as it runs: `while running` keeps making passes, and the
\* process started at line 116 ends (findBestMove returns), so a pass that
\* finds it ended is eventually made
SpecMainLive ==
    /\ InitMain
    /\ [][NextMainLive]_vars
    /\ WF_vars(Pass)
    /\ WF_vars(SearchEnds)

(***************************************************************************)
(* The rules of chess the properties below refer to, stated on a board     *)
(* independently of the engine's generators.                               *)
(***************************************************************************)
Other(color) == IF color = "w" THEN "b" ELSE "w"

\* the side to move
Mover == IF whiteToMove THEN "w" ELSE "b"

Orthogonal == {<<-1, 0>>, <<0, -1>>, <<1, 0>>, <<0, 1>>}
Diagonal == {<<-1, -1>>, <<-1, 1>>, <<1, -1>>, <<1, 1>>}
KnightJumps == {<<-2, -1>>, <<-2, 1>>, <<-1, -2>>, <<-1, 2>>,
                <<1, -2>>, <<1, 2>>, <<2, -1>>, <<2, 1>>}

\* the piece on (r, c), "--" off the board
At(b, r, c) == IF OnBoard(r, c) THEN b[r][c] ELSE "--"

\* the squares strictly between (r, c) and (r, c) + n * d are empty
ClearTo(b, r, c, d, n) ==
    \A k \in 1..(n - 1) : At(b, r + d[1] * k, c + d[2] * k) = "--"

\* a piece of colour by attacks the square (r, c)
Attacked(b, r, c, by) ==
    \/ \E d \in Orthogonal, n \in 1..7 :
          /\ At(b, r + d[1] * n, c + d[2] * n) \in {IF by = "w" THEN "wR" ELSE "bR",
                                                   IF by = "w" THEN "wQ" ELSE "bQ"}
          /\ ClearTo(b, r, c, d, n)
    \/ \E d \in Diagonal, n \in 1..7 :
          /\ At(b, r + d[1] * n, c + d[2] * n) \in {IF by = "w" THEN "wB" ELSE "bB",
                                                   IF by = "w" THEN "wQ" ELSE "bQ"}
          /\ ClearTo(b, r, c, d, n)
    \/ \E d \in KnightJumps :
          At(b, r + d[1], c + d[2]) = (IF by = "w" THEN "wN" ELSE "bN")
    \/ \E d \in Orthogonal \cup Diagonal :
          At(b, r + d[1], c + d[2]) = (IF by = "w" THEN "wK" ELSE "bK")
    \* a white pawn captures towards row 0, a black pawn towards row 7
    \/ \E dc \in {-1, 1} :
          At(b, IF by = "w" THEN r + 1 ELSE r - 1, c + dc) = (IF by = "w" THEN "wp" ELSE "bp")

\* the squares holding a king of the colour
KingSquares(b, color) ==
    {sq \in (0..7) \X (0..7) : b[sq[1]][sq[2]] = (IF color = "w" THEN "wK" ELSE "bK")}

\* no king of the colour is attacked
KingSafe(b, color) ==
    \A sq \in KingSquares(b, color) : ~Attacked(b, sq[1], sq[2], Other(color))

\* validMoves is the list getValidMoves returned for the current position
Fresh == raised = "" /\ ~stale

\* the state after makeMove(validMoves[i]) in the current state
Made(i) == The({ makeMove(s, m) : s \in {GS}, m \in {validMoves[i]} })

\* the state after makeMove(validMoves[i]) and then undoMove()
MadeUndone(i) == The({ undoMove(t) : t \in {Made(i)} })

(***************************************************************************)
(* Properties.                                                             *)
(***************************************************************************)
\* C1: for every move m of the list getValidMoves returned for the current
\* position, makeMove(m) followed by undoMove() restores the state exactly:
\* board, both king-square caches, the four castling rights, the en-passant
\* target, side to move, the checkmate and stalemate flags, the length of the
\* move log, and the en-passant and castling-rights history stacks.
C1_MakeUndoRestoresState ==
    Fresh =>
        \A i \in 1..Len(validMoves) :
            \E u \in {MadeUndone(i)} :
                /\ u.board = board
                /\ u.whiteKingLocation = whiteKingLocation
                /\ u.blackKingLocation = blackKingLocation
                /\ u.currentCastlingRight = currentCastlingRight
                /\ u.enPassantPossible = enPassantPossible
                /\ u.whiteToMove = whiteToMove
                /\ u.checkmate = checkmate
                /\ u.stalemate = stalemate
                /\ Len(u.moveLog) = Len(moveLog)
                /\ u.enPassantPossibleLog = enPassantPossibleLog
                /\ u.castleRightsLog = castleRightsLog

\* C2: every move of the list getValidMoves returned is legal: after
\* makeMove(m) the king of the side that moved is attacked by no enemy piece.
C2_ValidMovesAreLegal ==
    Fresh =>
        \A i \in 1..Len(validMoves) :
            \E t \in {Made(i)} : KingSafe(t.board, Mover)

\* C3: in every state reached by makeMove (of moves from getValidMoves) and
\* undoMove the board holds exactly one white king and exactly one black king.
C3_OneKingPerColour ==
    /\ Cardinality(KingSquares(board, "w")) = 1
    /\ Cardinality(KingSquares(board, "b")) = 1

\* C4: the perft traversal from the initial position counts the reference
\* values: getValidMoves returns 20 moves on the initial position, no depth
\* ever counts more paths than its reference value, and when the traversal is over
\* the counts are 20, 400 and 8902 for the depths 1, 2 and 3.
C4_PerftMatchesReference ==
    /\ Len(perftStack) >= 1 => perftCount[1] = PerftReference[1]
    /\ \A d \in 1..PerftDepth : perftCount[d] <= PerftReference[d]
    /\ PerftDone => perftCount = PerftReference

\* the traversal is over and has counted the 8902 paths of length 3
C4_Witness == PerftDone /\ perftCount[3] = 8902 /\ raised = ""

\* the pseudo-legal moves of the side to move: the engine's generators with
\* no pin taken into account
PseudoLegal == The({ getAllPossibleMoves([s EXCEPT !.pins = <<>>]) : s \in {GS} })

\* no pseudo-legal move of the side to move leaves its king unattacked
NoEscape ==
    \E ps \in {PseudoLegal} :
        /\ ps.err = ""
        /\ \A i \in 1..Len(ps.moves) :
               \E t \in {The({ makeMove(s, m) : s \in {GS}, m \in {ps.moves[i]} })} :
                   ~KingSafe(t.board, Mover)

\* C5: when the side to move is in check and has no move that leaves its king
\* unattacked, getValidMoves returns the empty list and sets checkmate.
C5_CheckmateDetected ==
    (Fresh /\ ~KingSafe(board, Mover) /\ NoEscape) =>
        (validMoves = <<>> /\ checkmate)

\* the pieces of the colour pinned to their king: <<r, c, d>> when the piece
\* on (r, c) is the only piece between the king and an enemy rook, bishop or
\* queen attacking along direction d from the king
Pinned(b, color) ==
    {p \in (0..7) \X (0..7) \X (Orthogonal \cup Diagonal) :
        /\ Color(b[p[1]][p[2]]) = color
        /\ Kind(b[p[1]][p[2]]) # "K"
        /\ \E k \in KingSquares(b, color), n1 \in 1..6, n2 \in 2..7 :
              /\ n1 < n2
              /\ <<k[1] + p[3][1] * n1, k[2] + p[3][2] * n1>> = <<p[1], p[2]>>
              /\ ClearTo(b, k[1], k[2], p[3], n1)
              /\ ClearTo(b, p[1], p[2], p[3], n2 - n1)
              /\ Color(At(b, k[1] + p[3][1] * n2, k[2] + p[3][2] * n2)) = Other(color)
              /\ Kind(At(b, k[1] + p[3][1] * n2, k[2] + p[3][2] * n2))
                    \in (IF p[3] \in Orthogonal THEN {"R", "Q"} ELSE {"B", "Q"})}

\* (r, c) lies on the line from the square (r0, c0) in direction d or its opposite
OnLine(r, c, r0, c0, d) ==
    \E n \in -7..7 : r = r0 + d[1] * n /\ c = c0 + d[2] * n

\* C6: a pinned piece of the side to move has no move in the list of
\* getValidMoves that ends off the pin line, whatever its kind.
C6_PinnedPiecesStayOnLine ==
    Fresh =>
        \A p \in Pinned(board, Mover) :
            \A i \in 1..Len(validMoves) :
                (validMoves[i].startRow = p[1] /\ validMoves[i].startCol = p[2]) =>
                    OnLine(validMoves[i].endRow, validMoves[i].endCol, p[1], p[2], p[3])

\* C7: undoMove gives back the castling rights the undone move took: a right
\* that makeMove(m) turned from True to False is True again after undoMove().
C7_UndoRestoresCastlingRights ==
    Fresh =>
        \A i \in 1..Len(validMoves) :
            \E t \in {Made(i)}, u \in {MadeUndone(i)} :
                /\ (currentCastlingRight.wks /\ ~t.currentCastlingRight.wks)
                       => u.currentCastlingRight.wks
                /\ (currentCastlingRight.wqs /\ ~t.currentCastlingRight.wqs)
                       => u.currentCastlingRight.wqs
                /\ (currentCastlingRight.bks /\ ~t.currentCastlingRight.bks)
                       => u.currentCastlingRight.bks
                /\ (currentCastlingRight.bqs /\ ~t.currentCastlingRight.bqs)
                       => u.currentCastlingRight.bqs

\* C8: getValidMoves raises no error in any state reached from the initial
\* position by moves taken from getValidMoves.
C8_MoveGenerationIsTotal == raised = ""

\* the king of the side to move stands on (r, c), holds the right to castle
\* towards column c + 2 * dc, is not attacked, the squares between king and
\* rook are empty and the two squares the king crosses are not attacked
MayCastle(dc) ==
    LET king == IF whiteToMove THEN whiteKingLocation ELSE blackKingLocation
        r == king[1]
        c == king[2]
        right == IF dc = 1
                 THEN (IF whiteToMove THEN currentCastlingRight.wks ELSE currentCastlingRight.bks)
                 ELSE (IF whiteToMove THEN currentCastlingRight.wqs ELSE currentCastlingRight.bqs)
    IN  /\ right
        /\ c = 4 /\ r = (IF whiteToMove THEN 7 ELSE 0)
        /\ board[r][c] = (IF whiteToMove THEN "wK" ELSE "bK")
        /\ ~Attacked(board, r, c, Other(Mover))
        /\ \A k \in 1..(IF dc = 1 THEN 2 ELSE 3) : board[r][c + dc * k] = "--"
        /\ \A k \in 1..2 : ~Attacked(board, r, c + dc * k, Other(Mover))

\* C9: castling is offered: when the side to move may castle to a side, the
\* list of getValidMoves holds the move of the king two squares towards that
\* rook, with isCastleMove set.
C9_CastlingIsOffered ==
    Fresh =>
        \A dc \in {-1, 1} :
            MayCastle(dc) =>
                \E i \in 1..Len(validMoves) :
                    /\ Kind(validMoves[i].pieceMoved) = "K"
                    /\ validMoves[i].endRow = validMoves[i].startRow
                    /\ validMoves[i].endCol = validMoves[i].startCol + 2 * dc
                    /\ validMoves[i].isCastleMove

\* the last move was the two-square advance of a pawn that landed beside a
\* pawn of the side to move standing on column endCol + dc, and capturing it
\* en passant leaves the capturer's king unattacked
EnPassantDue(dc) ==
    /\ Len(moveLog) > 0
    /\ LET last == Last(moveLog)
           skipped == (last.startRow + last.endRow) \div 2
       IN  /\ Kind(last.pieceMoved) = "p"
           /\ Abs(last.startRow - last.endRow) = 2
           /\ At(board, last.endRow, last.endCol + dc) = (IF whiteToMove THEN "wp" ELSE "bp")
           /\ KingSafe(SetSq(SetSq(SetSq(board, last.endRow, last.endCol + dc, "--"),
                                   last.endRow, last.endCol, "--"),
                             skipped, last.endCol, IF whiteToMove THEN "wp" ELSE "bp"),
                       Mover)

\* C10: right after a pawn's two-square advance that lands beside an enemy
\* pawn, getValidMoves returns for that enemy pawn the diagonal capture onto
\* the skipped square, flagged isEnpassantMove; makeMove of it empties the
\* square of the pawn that advanced and puts the capturer on the skipped
\* square, which was empty.  (Read for the captures that are legal.)
C10_EnPassantOfferedAndExecuted ==
    \A dc \in {-1, 1} :
        ((~stale \/ raised # "") /\ EnPassantDue(dc)) =>
            /\ raised = ""
            /\ \E i \in 1..Len(validMoves) :
                  \E m \in {validMoves[i]}, last \in {Last(moveLog)} :
                      /\ m.startRow = last.endRow
                      /\ m.startCol = last.endCol + dc
                      /\ m.endRow = (last.startRow + last.endRow) \div 2
                      /\ m.endCol = last.endCol
                      /\ m.isEnpassantMove
                      /\ board[m.endRow][m.endCol] = "--"
                      /\ \E t \in {Made(i)} :
                            /\ t.board[m.startRow][m.endCol] = "--"
                            /\ t.board[m.endRow][m.endCol] = m.pieceMoved
                            /\ t.board[m.startRow][m.startCol] = "--"

\* C11: castling rights are never regained by playing moves: for every move
\* of the list of getValidMoves, each of the four rights that is False before
\* makeMove is False after it.
C11_RightsNeverRegained ==
    Fresh =>
        \A i \in 1..Len(validMoves) :
            \E t \in {Made(i)} :
                /\ ~currentCastlingRight.wks => ~t.currentCastlingRight.wks
                /\ ~currentCastlingRight.wqs => ~t.currentCastlingRight.wqs
                /\ ~currentCastlingRight.bks => ~t.currentCastlingRight.bks
                /\ ~currentCastlingRight.bqs => ~t.currentCastlingRight.bqs

\* the white rook has just moved back onto a1, the king never moved, and the
\* queen-side right is still lost; Black's moves are known
C11_Witness ==
    /\ Fresh /\ undone = 0 /\ Len(validMoves) > 0
    /\ Len(moveLog) > 0
    /\ Last(moveLog).pieceMoved = "wR"
    /\ Last(moveLog).endRow = 7 /\ Last(moveLog).endCol = 0
    /\ ~currentCastlingRight.wqs /\ currentCastlingRight.wks

\* the home corner of the rook of a colour on a side: dc = 1 the king's side
Corner(color, dc) == <<IF color = "w" THEN 7 ELSE 0, IF dc = 1 THEN 7 ELSE 0>>

\* the castling right of a colour on a side
Right(cr, color, dc) ==
    IF color = "w" THEN (IF dc = 1 THEN cr.wks ELSE cr.wqs)
    ELSE (IF dc = 1 THEN cr.bks ELSE cr.bqs)

\* C12: makeMove revokes castling rights: after a king move both rights of
\* the mover are False; after a rook moves from its home corner the mover's
\* right of that side is False; after a rook is captured on its home corner
\* its owner's right of that side is False.
C12_RevocationRules ==
    Fresh =>
        \A i \in 1..Len(validMoves) :
            \E m \in {validMoves[i]}, t \in {Made(i)} :
                /\ board[m.startRow][m.startCol] = (IF whiteToMove THEN "wK" ELSE "bK") =>
                       \A dc \in {-1, 1} : ~Right(t.currentCastlingRight, Mover, dc)
                /\ \A dc \in {-1, 1} :
                       /\ (/\ board[m.startRow][m.startCol] = (IF whiteToMove THEN "wR" ELSE "bR")
                           /\ <<m.startRow, m.startCol>> = Corner(Mover, dc))
                              => ~Right(t.currentCastlingRight, Mover, dc)
                       /\ (/\ board[m.endRow][m.endCol] = (IF whiteToMove THEN "bR" ELSE "wR")
                           /\ <<m.endRow, m.endCol>> = Corner(Other(Mover), dc))
                              => ~Right(t.currentCastlingRight, Other(Mover), dc)

\* the rook on a1 has just been captured, the white king never moved (the
\* king-side right is still held), and the queen-side right is lost
C12_Witness ==
    /\ undone = 0
    /\ Len(moveLog) > 0
    /\ Last(moveLog).pieceCaptured = "wR"
    /\ Last(moveLog).endRow = 7 /\ Last(moveLog).endCol = 0
    /\ whiteKingLocation = <<7, 4>>
    /\ currentCastlingRight.wks /\ ~currentCastlingRight.wqs

\* C13: undoMove with an empty move log is a no-op: board, side to move, king
\* squares, en-passant target, castling rights, both history stacks and the
\* move log are unchanged.
C13_UndoOnEmptyLogIsNoOp ==
    Len(moveLog) = 0 =>
        \E u \in {The({ undoMove(s) : s \in {GS} })} :
            /\ u.board = board
            /\ u.whiteToMove = whiteToMove
            /\ u.whiteKingLocation = whiteKingLocation
            /\ u.blackKingLocation = blackKingLocation
            /\ u.enPassantPossible = enPassantPossible
            /\ u.currentCastlingRight = currentCastlingRight
            /\ u.enPassantPossibleLog = enPassantPossibleLog
            /\ u.castleRightsLog = castleRightsLog
            /\ u.moveLog = moveLog

\* the log is empty again after a move was made and undone: the next undoMove
\* finds nothing to undo
C13_Witness == Len(moveLog) = 0 /\ undone = 1 /\ Len(castleRightsLog) > 1

\* C14: when the side to move is not in check and has no move that leaves its
\* king unattacked, getValidMoves returns the empty list and sets stalemate.
C14_StalemateDetected ==
    (Fresh /\ KingSafe(board, Mover) /\ NoEscape) =>
        (validMoves = <<>> /\ stalemate)

\* C15: the castling-rights history never aliases the live rights value:
\* currentCastlingRight is not the same object as any entry of castleRightsLog.
C15_HistoryNeverAliased == castleAlias = 0

\* the GameState after makeMove of the first k moves of the log, in order, on
\* a fresh GameState
RECURSIVE ReplayLog(_, _)
ReplayLog(log, k) ==
    IF k = 0 THEN InitGS
    ELSE The({ makeMove(s, m) : s \in {ReplayLog(log, k - 1)}, m \in {log[k]} })

\* C16: the move log alone determines the game state: replaying moveLog with
\* makeMove on a fresh GameState yields the same board, side to move, king
\* squares, en-passant target and castling rights.
C16_LogDeterminesState ==
    \E g \in {ReplayLog(moveLog, Len(moveLog))} :
        /\ g.board = board
        /\ g.whiteToMove = whiteToMove
        /\ g.whiteKingLocation = whiteKingLocation
        /\ g.blackKingLocation = blackKingLocation
        /\ g.enPassantPossible = enPassantPossible
        /\ g.currentCastlingRight = currentCastlingRight

\* the Move values of all pairs of squares, built on the initial board with
\* the default flags
PlainMoves ==
    { Move(startSq, endSq, InitBoard, FALSE, FALSE) :
          startSq \in (0..7) \X (0..7), endSq \in (0..7) \X (0..7) }

SameSquares(m1, m2) ==
    /\ m1.startRow = m2.startRow
    /\ m1.startCol = m2.startCol
    /\ m1.endRow = m2.endRow
    /\ m1.endCol = m2.endCol

\* C17: two Move values compare equal if and only if their start row, start
\* column, end row and end column are equal, whatever their promotion,
\* en-passant, castle and captured-piece fields.
C17_EqualIffSameSquares ==
    clickMove # <<>> =>
        \A m2 \in PlainMoves : MoveEq(clickMove, m2) <=> SameSquares(clickMove, m2)

\* a Move with both flags set that compares equal to a Move whose promotion,
\* en-passant, castle and captured-piece fields all differ from its own
C17_Witness ==
    /\ clickMove # <<>>
    /\ \E m2 \in PlainMoves :
          /\ MoveEq(clickMove, m2)
          /\ m2.isPawnPromotion # clickMove.isPawnPromotion
          /\ m2.isEnpassantMove # clickMove.isEnpassantMove
          /\ m2.isCastleMove # clickMove.isCastleMove
          /\ m2.pieceCaptured # clickMove.pieceCaptured

\* C18: for every move of the list of getValidMoves (captures, promotions,
\* en-passant captures and king moves included), makeMove followed by
\* undoMove restores the board cell for cell, the side to move, both king
\* squares, the en-passant target and the move log.
C18_MakeUndoRestoresPosition ==
    Fresh =>
        \A i \in 1..Len(validMoves) :
            \E u \in {MadeUndone(i)} :
                /\ \A r \in 0..7, c \in 0..7 : u.board[r][c] = board[r][c]
                /\ u.whiteToMove = whiteToMove
                /\ u.whiteKingLocation = whiteKingLocation
                /\ u.blackKingLocation = blackKingLocation
                /\ u.enPassantPossible = enPassantPossible
                /\ u.moveLog = moveLog

\* the list holds an en-passant capture, a capture of a piece on its square
\* and a king move
C18_Witness ==
    /\ Fresh
    /\ \E i \in 1..Len(validMoves) : validMoves[i].isEnpassantMove
    /\ \E i \in 1..Len(validMoves) :
          validMoves[i].isCapture /\ ~validMoves[i].isEnpassantMove
    /\ \E i \in 1..Len(validMoves) : Kind(validMoves[i].pieceMoved) = "K"

\* C19: the en-passant history and the castling-rights history each hold
\* exactly len(moveLog) + 1 entries.
C19_HistoryLengths ==
    /\ Len(enPassantPossibleLog) = Len(moveLog) + 1
    /\ Len(castleRightsLog) = Len(moveLog) + 1

\* the piece on the square from attacks the square to
Attacks(b, from, to) ==
    LET p == b[from[1]][from[2]]
        dr == to[1] - from[1]
        dc == to[2] - from[2]
        Along(ds) == \E d \in ds, n \in 1..7 :
                        /\ dr = d[1] * n /\ dc = d[2] * n
                        /\ ClearTo(b, from[1], from[2], d, n)
    IN  CASE Kind(p) = "N" -> <<dr, dc>> \in KnightJumps
          [] Kind(p) = "K" -> <<dr, dc>> \in Orthogonal \cup Diagonal
          [] Kind(p) = "p" -> Abs(dc) = 1 /\ dr = (IF Color(p) = "w" THEN -1 ELSE 1)
          [] Kind(p) = "R" -> Along(Orthogonal)
          [] Kind(p) = "B" -> Along(Diagonal)
          [] Kind(p) = "Q" -> Along(Orthogonal \cup Diagonal)
          [] OTHER -> FALSE

\* the squares of the enemy pieces that attack a king of the colour
Checkers(b, color) ==
    {sq \in (0..7) \X (0..7) :
        /\ Color(b[sq[1]][sq[2]]) = Other(color)
        /\ \E k \in KingSquares(b, color) : Attacks(b, sq, k)}

\* the squares strictly between two squares of one line
Between(from, to) ==
    {sq \in (0..7) \X (0..7) :
        \E d \in Orthogonal \cup Diagonal, n \in 2..7, j \in 1..6 :
            /\ j < n
            /\ to = <<from[1] + d[1] * n, from[2] + d[2] * n>>
            /\ sq = <<from[1] + d[1] * j, from[2] + d[2] * j>>}

\* C20: when the side to move is in single check, every non-king move of the
\* list of getValidMoves ends between the king and the checking piece or on
\* the checking piece's square, and on the knight's square when a knight checks.
C20_SingleCheckBlocksOrCaptures ==
    (Fresh /\ Cardinality(Checkers(board, Mover)) = 1) =>
        \A a \in Checkers(board, Mover), k \in KingSquares(board, Mover) :
            \A i \in 1..Len(validMoves) :
                Kind(validMoves[i].pieceMoved) # "K" =>
                    <<validMoves[i].endRow, validMoves[i].endCol>> \in
                        (IF Kind(board[a[1]][a[2]]) = "N" THEN {a}
                         ELSE Between(a, k) \cup {a})

\* a knight alone checks the side to move, and the list holds a move of a
\* piece other than the king
C20_Witness ==
    /\ Fresh
    /\ Cardinality(Checkers(board, Mover)) = 1
    /\ \A a \in Checkers(board, Mover) : Kind(board[a[1]][a[2]]) = "N"
    /\ \E i \in 1..Len(validMoves) : Kind(validMoves[i].pieceMoved) # "K"

\* C21: when two or more enemy pieces attack the king of the side to move,
\* every move of the list of getValidMoves moves the king, and after each of
\* them no enemy piece attacks the king on the square it went to.
C21_DoubleCheckOnlySafeKingMoves ==
    (Fresh /\ Cardinality(Checkers(board, Mover)) >= 2) =>
        \A i \in 1..Len(validMoves) :
            /\ Kind(validMoves[i].pieceMoved) = "K"
            /\ \E t \in {Made(i)} : KingSafe(t.board, Mover)

\* the squares the entries of the engine's checks list name
CheckSquares == { <<checks[k][1], checks[k][2]>> : k \in 1..Len(checks) }

\* C22: after getValidMoves has run checkForPinsAndChecks, inCheck is TRUE
\* exactly when an enemy piece attacks the king of the side to move under the
\* chess attack rules, and the checks list holds one entry per attacking
\* piece: its entries name the attackers' squares, each of them once.
C22_ChecksMatchAttackRules ==
    Fresh =>
        /\ inCheck <=> (Checkers(board, Mover) # {})
        /\ CheckSquares = Checkers(board, Mover)
        /\ Len(checks) = Cardinality(Checkers(board, Mover))

\* a knight and a bishop check the king at once, and the checks list has the
\* two entries
C22_Witness ==
    /\ Fresh
    /\ inCheck
    /\ Len(checks) = 2
    /\ {Kind(board[a[1]][a[2]]) : a \in Checkers(board, Mover)} = {"N", "B"}

\* C23: after a getValidMoves call that returned, checkmate is TRUE exactly
\* when the returned list is empty and the side to move is in check, and
\* stalemate is TRUE exactly when the list is empty and the side is not in
\* check; and in no state reached through getValidMoves, makeMove and undoMove
\* are checkmate and stalemate both TRUE.
C23_TerminalFlagsMatchResult ==
    /\ Fresh => /\ checkmate <=> (Len(validMoves) = 0 /\ inCheck)
                /\ stalemate <=> (Len(validMoves) = 0 /\ ~inCheck)
    /\ ~(checkmate /\ stalemate)

\* getValidMoves returned the empty list for a side in check and set checkmate
C23_Witness ==
    /\ Fresh
    /\ Len(moveLog) > 0
    /\ validMoves = <<>>
    /\ inCheck
    /\ checkmate

\* validMoves[i] moves a pawn of the board two rows ahead
DoubleAdvance(i) ==
    /\ Kind(board[validMoves[i].startRow][validMoves[i].startCol]) = "p"
    /\ validMoves[i].startCol = validMoves[i].endCol
    /\ Abs(validMoves[i].endRow - validMoves[i].startRow) = 2

\* the square validMoves[i] passes over, one row from its start towards its end
SkippedSquare(i) ==
    <<validMoves[i].startRow
          + (IF validMoves[i].endRow > validMoves[i].startRow THEN 1 ELSE -1),
      validMoves[i].startCol>>

\* C24: after makeMove(m), for m of the list of getValidMoves, enPassantPossible
\* is the square m skipped when m is a two-square pawn advance and is empty
\* otherwise; so a target set by the move before is cleared by every move that
\* is not a double advance.
C24_EnPassantTargetLivesOnePly ==
    Fresh =>
        \A i \in 1..Len(validMoves) :
            \E t \in {Made(i)} :
                /\ DoubleAdvance(i) => t.enPassantPossible = SkippedSquare(i)
                /\ ~DoubleAdvance(i) => t.enPassantPossible = <<>>
                /\ Last(t.enPassantPossibleLog) = t.enPassantPossible

\* the move before was a double advance and set a target; the list holds a
\* move that clears it and a double advance that replaces it
C24_Witness ==
    /\ Fresh
    /\ enPassantPossible # <<>>
    /\ \E i \in 1..Len(validMoves) : ~DoubleAdvance(i) /\ Made(i).enPassantPossible = <<>>
    /\ \E i \in 1..Len(validMoves) :
           DoubleAdvance(i) /\ Made(i).enPassantPossible \notin {<<>>, enPassantPossible}

\* the last move was the two-square advance of a pawn that landed beside a
\* pawn of the side to move standing on column endCol + dc, the mover's king
\* stands on that rank and is not in check
EnPassantOnKingRank(dc) ==
    /\ Len(moveLog) > 0
    /\ LET last == Last(moveLog)
       IN  /\ Kind(last.pieceMoved) = "p"
           /\ Abs(last.startRow - last.endRow) = 2
           /\ At(board, last.endRow, last.endCol + dc) = (IF whiteToMove THEN "wp" ELSE "bp")
           /\ \E k \in KingSquares(board, Mover) : k[1] = last.endRow
    /\ Checkers(board, Mover) = {}

\* with the capturing and the captured pawn taken off the rank, an enemy rook
\* or queen attacks the mover's king along it
RankExposed(dc) ==
    LET last == Last(moveLog)
        b2 == SetSq(SetSq(board, last.endRow, last.endCol + dc, "--"),
                    last.endRow, last.endCol, "--")
    IN  \E c \in 0..7, k \in KingSquares(board, Mover) :
            /\ k[1] = last.endRow
            /\ Color(b2[last.endRow][c]) = Other(Mover)
            /\ Kind(b2[last.endRow][c]) \in {"R", "Q"}
            /\ Attacks(b2, <<last.endRow, c>>, k)

\* the list holds the en-passant capture by the pawn on column endCol + dc
EnPassantReturned(dc) ==
    \E i \in 1..Len(validMoves) :
        \E m \in {validMoves[i]}, last \in {Last(moveLog)} :
            /\ m.isEnpassantMove
            /\ m.startRow = last.endRow /\ m.startCol = last.endCol + dc
            /\ m.endRow = (last.startRow + last.endRow) \div 2 /\ m.endCol = last.endCol

\* C25: when an en-passant capture is on offer and the mover's king stands on
\* the capturing pawn's rank, getValidMoves returns a list, and the list
\* holds the capture exactly when removing both pawns from the rank does not
\* leave the king attacked along the rank by an enemy rook or queen.
C25_EnPassantRankExposure ==
    \A dc \in {-1, 1} :
        ((~stale \/ raised # "") /\ EnPassantOnKingRank(dc)) =>
            /\ raised = ""
            /\ EnPassantReturned(dc) <=> ~RankExposed(dc)

\* validMoves[i] takes a pawn of the side to move to the far rank: row 0 for
\* White, row 7 for Black
ReachesFarRank(i) ==
    /\ board[validMoves[i].startRow][validMoves[i].startCol]
           = (IF whiteToMove THEN "wp" ELSE "bp")
    /\ validMoves[i].endRow = (IF whiteToMove THEN 0 ELSE 7)

\* C26: for every pawn move of the list of getValidMoves that ends on the far
\* rank, makeMove leaves a queen of the mover's colour on the destination and
\* empties the start square, and undoMove then puts the pawn back on its start
\* square and what stood on the destination (a piece or nothing) back on it.
C26_PromotionToQueenIsReversible ==
    Fresh =>
        \A i \in 1..Len(validMoves) :
            ReachesFarRank(i) =>
                \E m \in {validMoves[i]}, t \in {Made(i)}, u \in {MadeUndone(i)} :
                    /\ m.isPawnPromotion
                    /\ t.board[m.endRow][m.endCol] = (IF whiteToMove THEN "wQ" ELSE "bQ")
                    /\ t.board[m.startRow][m.startCol] = "--"
                    /\ u.board[m.startRow][m.startCol] = board[m.startRow][m.startCol]
                    /\ u.board[m.endRow][m.endCol] = board[m.endRow][m.endCol]
                    /\ u.board = board

\* the list holds a pawn move to the far rank that captures a piece there
C26_Witness ==
    /\ Fresh
    /\ \E i \in 1..Len(validMoves) :
           /\ ReachesFarRank(i)
           /\ board[validMoves[i].endRow][validMoves[i].endCol] # "--"
           /\ Kind(Made(i).board[validMoves[i].endRow][validMoves[i].endCol]) = "Q"

\* the fields of the position in the state s are those of the current state
SamePosition(s) ==
    /\ s.board = board
    /\ s.whiteToMove = whiteToMove
    /\ s.whiteKingLocation = whiteKingLocation
    /\ s.blackKingLocation = blackKingLocation
    /\ s.enPassantPossible = enPassantPossible
    /\ s.currentCastlingRight = currentCastlingRight
    /\ s.moveLog = moveLog
    /\ s.enPassantPossibleLog = enPassantPossibleLog
    /\ s.castleRightsLog = castleRightsLog
    /\ s.castleAlias = castleAlias

\* C28: a getValidMoves call that returns leaves the board, the side to move,
\* the king squares, the en-passant target, the castling rights, the move log
\* and the two histories as they were; and called again in the state the
\* previous call left, it returns the list that call returned.
C28_GetValidMovesIsAnObserver ==
    raised = "" =>
        \E r \in {getValidMoves(GS)} :
            r.err = "" =>
                /\ SamePosition(r.s)
                /\ ~stale => r.moves = validMoves

\* the call before took the pin of a pawn off self.pins (line 376): a pawn of
\* the side to move is pinned and the pins the call left do not hold it
C28_Witness ==
    /\ Fresh
    /\ Len(validMoves) > 0
    /\ \E p \in Pinned(board, Mover) :
           /\ Kind(board[p[1]][p[2]]) = "p"
           /\ \A k \in 1..Len(pins) : <<pins[k][1], pins[k][2]>> # <<p[1], p[2]>>

\* C29: in every state reached by makeMove (of moves from getValidMoves) and
\* undoMove, the square whiteKingLocation holds the white king and the square
\* blackKingLocation holds the black king.
C29_KingCachesMatchBoard ==
    /\ board[whiteKingLocation[1]][whiteKingLocation[2]] = "wK"
    /\ board[blackKingLocation[1]][blackKingLocation[2]] = "bK"

\* C30: in every state reached by makeMove and undoMove from the initial
\* position, whiteToMove is TRUE exactly when the length of moveLog is even.
C30_TurnFollowsLogLength ==
    whiteToMove <=> (Len(moveLog) % 2 = 0)

\* moves were made and one was undone, leaving a log of odd length with Black
\* to move
C30_Witness ==
    /\ undone = 1
    /\ Len(moveLog) % 2 = 1
    /\ Len(moveLog) >= 3
    /\ ~whiteToMove

\* every move of the list ms is a member of the list getValidMoves returns in
\* the current state
AllLegalNow(ms) ==
    \E r \in {getValidMoves(GS)} :
        /\ r.err = ""
        /\ \A i \in 1..Len(ms) : \E k \in 1..Len(r.moves) : MoveEq(ms[i], r.moves[k])

\* the moves a click pair can hand to makeMove in the current state
ClickableMoves == IF ~gameOver /\ humanTurn THEN validMoves ELSE <<>>

\* the moves the search section can hand to makeMove in the current state
SearchableMoves ==
    IF ~SearchTurn THEN <<>>
    ELSE SearchResults(IF AIThinking THEN searchMoves ELSE validMoves, validMoves)

Matching(m) == {k \in 1..Len(validMoves) : MoveEq(m, validMoves[k])}

\* C31: the list getValidMoves returned holds no two moves with the same
\* start and end squares, none that compare equal under Move.__eq__; so the
\* move built from the two clicked squares of an entry of the list is equal to
\* that entry alone, and the loop of lines 73-79 calls makeMove once.
C31_NoTwoEqualValidMoves ==
    Fresh =>
        /\ \A i \in 1..Len(validMoves), j \in 1..Len(validMoves) :
               (i # j) =>
                   /\ ~MoveEq(validMoves[i], validMoves[j])
                   /\ ~SameSquares(validMoves[i], validMoves[j])
        /\ \A i \in 1..Len(validMoves) :
               \E move \in {Move(<<validMoves[i].startRow, validMoves[i].startCol>>,
                                  <<validMoves[i].endRow, validMoves[i].endCol>>,
                                  board, FALSE, FALSE)} :
                   Matching(move) = {i}

\* a pair of clicks was matched and its move made, and the list of the
\* position after holds an en-passant capture next to plain captures and
\* several moves of one piece
C31_Witness ==
    /\ Fresh
    /\ clickMove # <<>>
    /\ \E i \in 1..Len(validMoves) : validMoves[i].isEnpassantMove
    /\ \E i \in 1..Len(validMoves), j \in 1..Len(validMoves) :
           /\ i # j
           /\ validMoves[i].startRow = validMoves[j].startRow
           /\ validMoves[i].startCol = validMoves[j].startCol
           /\ validMoves[i].isCapture /\ validMoves[j].isCapture

\* the side to move is played by the search and it has a move it may play:
\* the list getValidMoves would compute is not empty (the game is not over)
SearchCanMove ==
    /\ ~HumanTurnValue(GS)
    /\ \E res \in {getValidMoves(GS)} :
           /\ res.err = ""
           /\ \E k \in 1..Len(res.moves) : Playable(res.moves[k])

\* C32: once 'u' or 'r' has been handled (moveUndone is set, lines 94 and 107),
\* with the side to move played by the search and the game not over, a move
\* of the search is applied (the move log grows) unless another input event
\* is handled first.
C32_SearchResumesAfterUndoOrReset ==
    \A n \in 0..MaxInputs, len \in 0..Len(MainLine) :
        (/\ raised = ""
         /\ moveUndone
         /\ inputs = n
         /\ Len(moveLog) = len
         /\ SearchCanMove)
            ~> (inputs # n \/ Len(moveLog) > len)

====
